---- MODULE Spec2Model ----
(***************************************************************************)
(* Model of messaging/broker.go: the broker state machine applied from the *)
(* raft log, the per-topic segmented log, replica attach (catch-up and     *)
(* live tail), truncation, snapshot and restore.                           *)
(*                                                                         *)
(* A message is represented by its index: its topic is the directory of    *)
(* the segment file that holds it, and no operation reads Type or Data     *)
(* after the append.  A replica sink records <<topicID, index>> for every  *)
(* message written to it.  File sizes are counted in messages.             *)
(***************************************************************************)
EXTENDS Integers, Sequences, FiniteSets, TLC

\* ---- program constants (scaled) ----
BroadcastTopicID == 0
MaxSegmentSize == 2
messageHeaderSize == 1

\* ---- bounds of the model ----
MaxApplies == 3
MaxAttachApplies == 2
MaxAttaches == 1
MaxObj == 4
MaxSinks == 2

RIDs == {1, 2}
TIDs == {0, 1}
HeartbeatIndexes == {3, 5, 6}

VARIABLES
    path,       \* Broker.path: TRUE when the broker is open (path # "")
    log,        \* Broker.log: TRUE when the raft log is open
    index,      \* Broker.index: highest applied index
    replicas,   \* Broker.replicas: replica id -> replica object (0 = absent)
    topics,     \* Broker.topics: topic id -> topic
    robj,       \* heap of Replica objects
    sinks,      \* the writers handed to Replica.WriteTo, with what they received
    flows,      \* the position of each Replica.WriteTo call
    files,      \* data directory: topic id -> (segment start index -> messages)
    meta,       \* data directory: the meta file
    snap,       \* the snapshot last written by Snapshot
    logIndex,   \* raft log: index of the last entry handed to MustApply
    limit,      \* the run: index of its last log entry, number of its WriteTo calls
    leader,     \* raft log: this node's state is Leader
    panicked,   \* "" or the reason the process aborted
    unsubAt,    \* history: index at which Unsubscribe{r, t} was last applied
    pending,    \* raft log: the command a caller published and waits for in PublishSync
    applied,    \* history: the entries handed to MustApply, when the run records them
    last        \* history: the operation that ran last

vars == <<path, log, index, replicas, topics, robj, sinks, flows, files, meta, snap,
          logIndex, limit, leader, panicked, unsubAt, pending, applied, last>>

\* ---- helpers ----
Max(S) == IF S = {} THEN 0 ELSE CHOOSE x \in S : \A y \in S : y <= x

Min(S) == CHOOSE x \in S : \A y \in S : x <= y

RECURSIVE SortedSeq(_)
SortedSeq(S) == IF S = {} THEN <<>> ELSE <<Min(S)>> \o SortedSeq(S \ {Min(S)})

RECURSIVE Flatten(_)
Flatten(ss) == IF ss = <<>> THEN <<>> ELSE Head(ss) \o Flatten(Tail(ss))

NoFiles == [x \in {} |-> <<>>]

WriteFile(fs, name, content) ==
    [x \in (DOMAIN fs) \cup {name} |-> IF x = name THEN content ELSE fs[x]]

RemoveFile(fs, name) == [x \in (DOMAIN fs) \ {name} |-> fs[x]]

NoReplicaMap == [r \in RIDs |-> 0]

NoTopic == [present |-> FALSE, index |-> 0, segments |-> <<>>, replicas |-> NoReplicaMap]

FreeObj == [id |-> 0, index |-> 0, writer |-> 0, topics |-> {}]

NoSink == [used |-> FALSE, rid |-> 0, out |-> <<>>, done |-> 0, broken |-> FALSE]

NoFlow == [pc |-> "idle", obj |-> 0, ids |-> <<>>, stale |-> FALSE]

NoMeta == [exists |-> FALSE, topics |-> {}, replicas |-> [r \in RIDs |-> [present |-> FALSE, topics |-> {}]]]

NoSnap == [taken |-> FALSE, index |-> 0, topics |-> <<>>, replicas |-> NoMeta.replicas]

\* The in-memory and on-disk state the operations below transform.
State == [index |-> index, replicas |-> replicas, topics |-> topics, robj |-> robj,
          sinks |-> sinks, files |-> files, meta |-> meta, panicked |-> panicked]

\* ---- segments ----
segments_last(a) == IF Len(a) = 0 THEN 0 ELSE Len(a)

\* topic.loadSegments without sort.Sort: the segments in the order the
\* directory listed them, here the reverse of the sorted one.
loadSegmentsUnsorted(fs) ==
    LET names == SortedSeq(DOMAIN fs)
        n == Len(names)
    IN  IF n = 0
        THEN << [index |-> 0, size |-> 0, file |-> FALSE] >>
        ELSE [i \in 1..n |->
                [index |-> names[n + 1 - i], size |-> Len(fs[names[n + 1 - i]]) * messageHeaderSize,
                 file |-> FALSE]]

\* topic.loadSegments: one segment per file, sorted; a placeholder if none.
loadSegments(fs) ==
    LET names == SortedSeq(DOMAIN fs)
    IN  IF Len(names) = 0
        THEN << [index |-> 0, size |-> 0, file |-> FALSE] >>
        ELSE [i \in 1..Len(names) |->
                [index |-> names[i], size |-> Len(fs[names[i]]) * messageHeaderSize,
                 file |-> FALSE]]

\* topic.open
topic_open(st, id) == [st EXCEPT !.topics[id].segments = loadSegments(st.files[id])]

\* topic.Close: close the write handle of every segment.
topic_Close(t) ==
    [t EXCEPT !.segments = [i \in DOMAIN t.segments |-> [t.segments[i] EXCEPT !.file = FALSE]]]

\* topic.loadIndex: the index of the last message decoded from the last segment.
topic_loadIndexOff(t, fs) ==
    LET s == t.segments[segments_last(t.segments)]
    IN  IF s.index \notin DOMAIN fs \/ Len(fs[s.index]) = 0 THEN t
        ELSE [t EXCEPT !.index = fs[s.index][Len(fs[s.index])] + 1]

topic_loadIndex(t, fs) ==
    LET s == t.segments[segments_last(t.segments)]
    IN  IF s.index \notin DOMAIN fs \/ Len(fs[s.index]) = 0 THEN t
        ELSE [t EXCEPT !.index = fs[s.index][Len(fs[s.index])]]

\* ---- metadata ----
\* Broker.createSnapshotHeader, as far as the meta file is read back by load.
createSnapshotHeader(st) ==
    [exists |-> TRUE,
     topics |-> {t \in TIDs : st.topics[t].present},
     replicas |-> [r \in RIDs |->
        IF st.replicas[r] = 0 THEN [present |-> FALSE, topics |-> {}]
        ELSE [present |-> TRUE, topics |-> st.robj[st.replicas[r]].topics]]]

\* Broker.save / mustSave
save(st) == [st EXCEPT !.meta = createSnapshotHeader(st)]

\* Broker.newTopic
newTopic(st, id) ==
    [st EXCEPT !.topics[id] = [present |-> TRUE, index |-> 0, segments |-> <<>>,
                               replicas |-> NoReplicaMap]]

\* Broker.createTopicIfNotExists / mustCreateTopicIfNotExists
createTopicIfNotExists(st, id) ==
    IF st.topics[id].present THEN st ELSE topic_open(save(newTopic(st, id)), id)

\* ---- replicas ----
FreeOids(st) == {o \in 1..MaxObj : st.robj[o].id = 0}

\* newReplica: a fresh Replica object; returns the state and the object.
newReplica(st, id) ==
    LET o == Min(FreeOids(st))
    IN  [st |-> [st EXCEPT !.robj[o] = [id |-> id, index |-> 0, writer |-> 0, topics |-> {}]],
         o |-> o]

\* Replica.closeWriter that closes the done channel and leaves the writer set.
closeWriterKeep(st, o) ==
    LET w == st.robj[o].writer
    IN  IF w = 0 THEN st
        ELSE [st EXCEPT !.sinks[w].done = @ + 1]

\* Replica.closeWriter
closeWriter(st, o) ==
    LET w == st.robj[o].writer
    IN  IF w = 0 THEN st
        ELSE [st EXCEPT !.robj[o].writer = 0, !.sinks[w].done = @ + 1]

\* Replica.Write that keeps the writer when its Write returns an error.
Replica_WriteKeep(st, o, tid, m) ==
    LET w == st.robj[o].writer
    IN  IF w = 0 \/ st.sinks[w].broken THEN [st |-> st, ok |-> FALSE]
        ELSE [st |-> [st EXCEPT !.sinks[w].out = Append(@, <<tid, m>>)], ok |-> TRUE]

\* Replica.Write of one message of topic tid: ok is FALSE for
\* errReplicaUnavailable; a writer whose Write returns an error is removed.
Replica_Write(st, o, tid, m) ==
    LET w == st.robj[o].writer
    IN  IF w = 0 THEN [st |-> st, ok |-> FALSE]
        ELSE IF st.sinks[w].broken THEN [st |-> closeWriter(st, o), ok |-> FALSE]
        ELSE [st |-> [st EXCEPT !.sinks[w].out = Append(@, <<tid, m>>)], ok |-> TRUE]

\* ---- catch-up ----
\* topic.writeSegmentTo: the messages of one segment file after index.
writeSegmentTo(fs, idx, seg) ==
    IF seg.index \notin DOMAIN fs THEN <<>>
    ELSE SelectSeq(fs[seg.index], LAMBDA m : ~(m <= idx))

\* The loop of topic.writeTo: the messages it hands to the replica, in order.
writeToSkipOwn(segs, fs, idx) ==
    Flatten([i \in 1..Len(segs) |->
        IF idx >= segs[i].index /\ i < Len(segs) THEN <<>>
        ELSE writeSegmentTo(fs, idx, segs[i])])

writeToMessages(segs, fs, idx) ==
    Flatten([i \in 1..Len(segs) |->
        IF i < Len(segs) /\ idx >= segs[i + 1].index THEN <<>>
        ELSE writeSegmentTo(fs, idx, segs[i])])

RECURSIVE WriteAll(_, _, _, _)
WriteAll(st, o, tid, ms) ==
    IF ms = <<>> THEN [st |-> st, ok |-> TRUE]
    ELSE LET w == Replica_Write(st, o, tid, Head(ms))
         IN  IF ~w.ok THEN w ELSE WriteAll(w.st, o, tid, Tail(ms))

\* topic.writeTo: ok is FALSE when a write to the replica failed.
writeTo(st, tid, o) ==
    WriteAll(st, o, tid,
             writeToMessages(st.topics[tid].segments, st.files[tid], st.robj[o].index))

\* ---- append ----
Panic(st, why) == [st EXCEPT !.panicked = why]

\* The loop over t.replicas at the end of topic.encode; Write errors are dropped.
RECURSIVE WriteReplicas(_, _, _, _)
WriteReplicas(st, tid, k, rs) ==
    IF rs = {} THEN st
    ELSE LET r == Min(rs)
             o == st.topics[tid].replicas[r]
         IN  WriteReplicas(IF o = 0 THEN st ELSE Replica_Write(st, o, tid, k).st,
                           tid, k, rs \ {r})

\* topic.encode: append message k to the topic and hand it to the attached
\* replicas.  The rollover branch sets s to nil, appends the new segment to
\* t.segments and then reads s.file: a nil dereference.  segment.size is set
\* by loadSegments only.
encode(st, tid, k) ==
    LET t == st.topics[tid]
        n == segments_last(t.segments)
    IN  IF ~(k > t.index) THEN Panic(st, "topic message out of order")
        ELSE IF n = 0 THEN Panic(st, "nil segment")
        ELSE IF t.segments[n].size > MaxSegmentSize
        THEN Panic([st EXCEPT !.topics[tid].segments =
                        Append([@ EXCEPT ![n].file = FALSE],
                               [index |-> k, size |-> 0, file |-> FALSE])],
                   "nil segment")
        ELSE LET s == t.segments[n]
                 fs == st.files[tid]
                 old == IF s.index \in DOMAIN fs THEN fs[s.index] ELSE <<>>
             IN  WriteReplicas(
                    [st EXCEPT !.topics[tid].segments[n].file = TRUE,
                               !.files[tid] = WriteFile(fs, s.index, Append(old, k)),
                               !.topics[tid].index = k],
                    tid, k, RIDs)

\* ---- commands ----
\* Broker.mustApplyCreateReplica without the automatic subscription.
mustApplyCreateReplicaNoSub(st, id) ==
    LET nr == newReplica(st, id)
        s1 == createTopicIfNotExists(nr.st, BroadcastTopicID)
    IN  save([s1 EXCEPT !.replicas[id] = nr.o])

\* Broker.mustApplyCreateReplica: no check for an existing id.
mustApplyCreateReplica(st, id) ==
    LET nr == newReplica(st, id)
        s1 == createTopicIfNotExists(nr.st, BroadcastTopicID)
    IN  save([s1 EXCEPT !.robj[nr.o].topics = {BroadcastTopicID}, !.replicas[id] = nr.o])

\* Broker.mustApplyDeleteReplica
mustApplyDeleteReplica(st, id) ==
    LET r == st.replicas[id]
    IN  IF r = 0 THEN st
        ELSE LET s1 == [st EXCEPT
                        !.topics = [t \in TIDs |->
                            IF t \in st.robj[r].topics /\ st.topics[t].present
                            THEN [st.topics[t] EXCEPT !.replicas[st.robj[r].id] = 0]
                            ELSE st.topics[t]],
                        !.robj[r].topics = {}]
                 s2 == closeWriter(s1, r)
             IN  save([s2 EXCEPT !.replicas[id] = 0])

\* Broker.mustApplySubscribe that records the subscription only when the
\* catch-up reached the replica.
mustApplySubscribeIfWritten(st, rid, tid) ==
    LET r == st.replicas[rid]
    IN  IF r = 0 THEN st
        ELSE LET s1 == createTopicIfNotExists(st, tid)
                 w == writeTo(s1, tid, r)
             IN  IF tid \in s1.robj[r].topics \/ ~w.ok THEN s1
                 ELSE save([w.st EXCEPT !.robj[r].topics = @ \cup {tid},
                                        !.topics[tid].replicas[rid] = r])

\* Broker.mustApplySubscribe
mustApplySubscribe(st, rid, tid) ==
    LET r == st.replicas[rid]
    IN  IF r = 0 THEN st
        ELSE LET s1 == createTopicIfNotExists(st, tid)
             IN  IF tid \in s1.robj[r].topics THEN s1
                 ELSE save(writeTo([s1 EXCEPT !.robj[r].topics = @ \cup {tid},
                                              !.topics[tid].replicas[rid] = r],
                                   tid, r).st)

\* Broker.mustApplyUnsubscribe
mustApplyUnsubscribe(st, rid, tid) ==
    LET s1 == IF st.replicas[rid] # 0
              THEN [st EXCEPT !.robj[st.replicas[rid]].topics = @ \ {tid}]
              ELSE st
        s2 == IF s1.topics[tid].present
              THEN [s1 EXCEPT !.topics[tid].replicas[rid] = 0]
              ELSE s1
    IN  save(s2)

\* The commands and messages a log entry can carry.  Commands are published
\* by the broker with TopicID 0; a user message names its topic.
Entries ==
    [type : {"Internal"}, rid : {0}, tid : {0}, topic : {BroadcastTopicID}]
    \cup [type : {"Publish"}, rid : {0}, tid : {0}, topic : TIDs]
    \cup [type : {"CreateReplica", "DeleteReplica"}, rid : RIDs, tid : {0},
          topic : {BroadcastTopicID}]
    \cup [type : {"Subscribe", "Unsubscribe"}, rid : RIDs, tid : TIDs,
          topic : {BroadcastTopicID}]

\* The switch of brokerFSM.MustApply.
applyCommand(st, e) ==
    CASE e.type = "CreateReplica" -> mustApplyCreateReplica(st, e.rid)
      [] e.type = "DeleteReplica" -> mustApplyDeleteReplica(st, e.rid)
      [] e.type = "Subscribe" -> mustApplySubscribe(st, e.rid, e.tid)
      [] e.type = "Unsubscribe" -> mustApplyUnsubscribe(st, e.rid, e.tid)
      [] OTHER -> st

\* brokerFSM.MustApply that leaves Broker.index alone.
MustApplyNoIndex(st, e, k) ==
    encode(createTopicIfNotExists(applyCommand(st, e), e.topic), e.topic, k)

\* brokerFSM.MustApply of the entry e with raft index k.
MustApply(st, e, k) ==
    LET s3 == encode(createTopicIfNotExists(applyCommand(st, e), e.topic), e.topic, k)
    IN  IF s3.panicked # "" THEN s3 ELSE [s3 EXCEPT !.index = k]

\* ---- calls ----
\* The existence check of Broker.CreateReplica, DeleteReplica, Subscribe and
\* Unsubscribe with nothing checked.
precheckNone(st, e) == ""

\* The existence check of Broker.CreateReplica, DeleteReplica, Subscribe and
\* Unsubscribe: the error returned before anything is published, "" if none.
precheck(st, e) ==
    IF e.type = "CreateReplica"
    THEN (IF st.replicas[e.rid] # 0 THEN "ErrReplicaExists" ELSE "")
    ELSE (IF st.replicas[e.rid] = 0 THEN "ErrReplicaNotFound" ELSE "")

\* Broker.ReplicaIndex of a replica that exists.
ReplicaIndex(st, id) == st.robj[st.replicas[id]].index

\* ---- open and close ----
\* The replica loop of Broker.load and brokerFSM.Restore.
RECURSIVE loadReplicas(_, _, _)
loadReplicas(st, hdr, rs) ==
    IF rs = {} THEN st
    ELSE LET r == Min(rs)
             nr == newReplica(st, r)
         IN  loadReplicas([nr.st EXCEPT !.robj[nr.o].topics = hdr[r].topics,
                                        !.replicas[r] = nr.o],
                          hdr, rs \ {r})

\* Broker.loadIndex
loadIndex(st) ==
    LET ts == [t \in TIDs |->
                IF st.topics[t].present THEN topic_loadIndex(st.topics[t], st.files[t])
                ELSE st.topics[t]]
    IN  [st EXCEPT !.topics = ts,
                   !.index = Max({st.index} \cup {ts[t].index : t \in TIDs})]

\* Broker.load without the call of loadIndex.
loadNoIndex(st) ==
    IF ~st.meta.exists THEN st
    ELSE LET s1 == [st EXCEPT !.topics = [t \in TIDs |->
                        IF t \in st.meta.topics
                        THEN [present |-> TRUE, index |-> 0,
                              segments |-> loadSegments(st.files[t]),
                              replicas |-> NoReplicaMap]
                        ELSE st.topics[t]]]
         IN  loadReplicas(s1, st.meta.replicas,
                          {r \in RIDs : st.meta.replicas[r].present})

\* Broker.load: topics and replicas from the meta file, indexes from the segments.
load(st) ==
    IF ~st.meta.exists THEN st
    ELSE LET s1 == [st EXCEPT !.topics = [t \in TIDs |->
                        IF t \in st.meta.topics
                        THEN [present |-> TRUE, index |-> 0,
                              segments |-> loadSegments(st.files[t]),
                              replicas |-> NoReplicaMap]
                        ELSE st.topics[t]]]
             s2 == loadReplicas(s1, st.meta.replicas,
                                {r \in RIDs : st.meta.replicas[r].present})
         IN  loadIndex(s2)

\* Broker.closeTopics
closeTopics(st) == [st EXCEPT !.topics = [t \in TIDs |-> NoTopic]]

\* Broker.closeReplicas
RECURSIVE closeWriters(_, _)
closeWriters(st, rs) ==
    IF rs = {} THEN st
    ELSE closeWriters(closeWriter(st, st.replicas[Min(rs)]), rs \ {Min(rs)})

closeReplicas(st) ==
    [closeWriters(st, {r \in RIDs : st.replicas[r] # 0}) EXCEPT !.replicas = NoReplicaMap]

\* Broker.close
close(st) == closeReplicas(closeTopics(st))

\* ---- truncation ----
\* Broker.minReplicaTopicIndex taking the highest index instead of the lowest.
minReplicaTopicIndexMax(st, tid) ==
    Max({st.robj[st.replicas[r]].index :
            r \in {x \in RIDs : st.replicas[x] # 0 /\ tid \in st.robj[st.replicas[x]].topics}})

\* Broker.minReplicaTopicIndex
minReplicaTopicIndex(st, tid) ==
    LET S == {st.robj[st.replicas[r]].index :
                r \in {x \in RIDs : st.replicas[x] # 0 /\ tid \in st.robj[st.replicas[x]].topics}}
    IN  IF S = {} THEN 0 ELSE Min(S)

\* The segments of topic tid that Broker.Truncate closes and removes.
truncated(st, tid) ==
    LET segs == st.topics[tid].segments
    IN  {i \in 1..Len(segs) :
            ~(i = Len(segs) \/ minReplicaTopicIndex(st, tid) < segs[i + 1].index)}

\* Broker.Truncate: newSegments is built and dropped; t.segments stays as it was.
Truncate(st) ==
    [st EXCEPT
        !.topics = [t \in TIDs |->
            [st.topics[t] EXCEPT !.segments = [i \in DOMAIN st.topics[t].segments |->
                IF i \in truncated(st, t)
                THEN [st.topics[t].segments[i] EXCEPT !.file = FALSE]
                ELSE st.topics[t].segments[i]]]],
        !.files = [t \in TIDs |->
            [x \in (DOMAIN st.files[t]) \
                    {st.topics[t].segments[i].index : i \in truncated(st, t)} |->
                st.files[t][x]]]]

\* ---- snapshot and restore ----
Perms(S) == {p \in [1..Cardinality(S) -> S] : \A i, j \in DOMAIN p : i # j => p[i] # p[j]}

\* Broker.createSnapshotHeader with Broker.index as the header's index.
snapshotHeaderApplied(st, ord) ==
    [taken |-> TRUE,
     index |-> st.index,
     topics |-> [n \in DOMAIN ord |->
        [id |-> ord[n],
         segments |-> [i \in DOMAIN st.topics[ord[n]].segments |->
            LET s == st.topics[ord[n]].segments[i]
            IN  [index |-> s.index,
                 exists |-> s.index \in DOMAIN st.files[ord[n]],
                 data |-> IF s.index \in DOMAIN st.files[ord[n]]
                          THEN st.files[ord[n]][s.index] ELSE <<>>]]]],
     replicas |-> createSnapshotHeader(st).replicas]

\* Broker.createSnapshotHeader for Snapshot: the topics in the order ord, each
\* segment with the size os.Stat reports (0 when the file is missing).
snapshotHeader(st, ord) ==
    [taken |-> TRUE,
     index |-> Max(UNION {{st.topics[t].segments[i].index :
                                i \in 1..Len(st.topics[t].segments)} : t \in TIDs}),
     topics |-> [n \in DOMAIN ord |->
        [id |-> ord[n],
         segments |-> [i \in DOMAIN st.topics[ord[n]].segments |->
            LET s == st.topics[ord[n]].segments[i]
            IN  [index |-> s.index,
                 exists |-> s.index \in DOMAIN st.files[ord[n]],
                 data |-> IF s.index \in DOMAIN st.files[ord[n]]
                          THEN st.files[ord[n]][s.index] ELSE <<>>]]]],
     replicas |-> createSnapshotHeader(st).replicas]

\* copyFileN fails when the segment file cannot be opened.
snapshotOk(hdr) ==
    \A n \in DOMAIN hdr.topics : \A i \in DOMAIN hdr.topics[n].segments :
        hdr.topics[n].segments[i].exists

\* The topic loop of brokerFSM.Restore: os.Open of a segment file under the
\* directory just removed fails, and Restore returns with the topic unopened.
RECURSIVE restoreTopics(_, _)
restoreTopics(st, hts) ==
    IF hts = <<>> THEN [st |-> st, ok |-> TRUE]
    ELSE LET s1 == [newTopic(st, Head(hts).id) EXCEPT !.files[Head(hts).id] = NoFiles]
         IN  IF Len(Head(hts).segments) > 0 THEN [st |-> s1, ok |-> FALSE]
             ELSE restoreTopics(topic_open(s1, Head(hts).id), Tail(hts))

\* brokerFSM.Restore
Restore(st, hdr) ==
    LET r1 == restoreTopics(closeReplicas(closeTopics(st)), hdr.topics)
    IN  IF ~r1.ok THEN r1
        ELSE [st |-> loadReplicas(r1.st, hdr.replicas,
                                  {r \in RIDs : hdr.replicas[r].present}),
              ok |-> TRUE]

\* ---- the data directories a run starts from ----
\* A new, empty directory.
EmptySeed ==
    [files |-> [t \in TIDs |-> NoFiles], meta |-> NoMeta, logIndex |-> 0]

\* A directory left by an earlier run: replica 1 created (entry 1) and
\* subscribed to topic 1 (entry 2), four messages published to topic 1 and
\* stored in three segments named after their first index.
SegSeed ==
    [files |-> [t \in TIDs |->
        IF t = 0 THEN (0 :> <<1, 2>>)
        ELSE (3 :> <<3, 4>>) @@ (5 :> <<5>>) @@ (6 :> <<6>>)],
     meta |-> [exists |-> TRUE, topics |-> {0, 1},
               replicas |-> [r \in RIDs |->
                    IF r = 1 THEN [present |-> TRUE, topics |-> {0, 1}]
                    ELSE [present |-> FALSE, topics |-> {}]]],
     logIndex |-> 6]

Seeds == {EmptySeed, SegSeed}

\* ---- bookkeeping of the model ----
\* A WriteTo call that still holds its Replica: in the loop, or blocked on done.
Waiting(fl, sk, s) ==
    fl[s].pc \in {"loop", "register"} \/ (fl[s].pc = "wait" /\ sk[s].done = 0)

\* A WriteTo call that returns as soon as its loop is over, without waiting.
normFlowsEarly(fl, sk) ==
    [s \in 1..MaxSinks |->
        IF fl[s].pc \in {"idle", "loop", "register"} THEN fl[s]
        ELSE [pc |-> IF fl[s].pc = "failed" THEN "failed" ELSE "returned",
              obj |-> 0, ids |-> <<>>, stale |-> FALSE]]

\* A WriteTo call blocked on a done channel that has been closed has returned.
normFlows(fl, sk) ==
    [s \in 1..MaxSinks |->
        IF fl[s].pc = "idle" \/ Waiting(fl, sk, s) THEN fl[s]
        ELSE [pc |-> IF fl[s].pc = "failed" THEN "failed" ELSE "returned",
              obj |-> 0, ids |-> <<>>, stale |-> FALSE]]

\* The Replica objects some map or some WriteTo call still refers to.
Reachable(st, fl) ==
    ({st.replicas[r] : r \in RIDs}
     \cup UNION {{st.topics[t].replicas[r] : r \in RIDs} : t \in TIDs}
     \cup {fl[s].obj : s \in 1..MaxSinks}) \ {0}

\* Objects nothing refers to are garbage; their slots are reused.
collect(st, fl) ==
    [st EXCEPT !.robj = [o \in 1..MaxObj |->
        IF o \in Reachable(st, fl) THEN st.robj[o] ELSE FreeObj]]

Commit(st, fl) ==
    \E f2 \in {normFlows(fl, st.sinks)} :
        \E c \in {collect(st, f2)} :
            /\ index' = c.index
            /\ replicas' = c.replicas
            /\ topics' = c.topics
            /\ robj' = c.robj
            /\ sinks' = c.sinks
            /\ files' = c.files
            /\ meta' = c.meta
            /\ panicked' = c.panicked
            /\ flows' = f2

Op(op, rid, tid, sink, existed, ok) ==
    [op |-> op, rid |-> rid, tid |-> tid, sink |-> sink, existed |-> existed, ok |-> ok,
     err |-> ""]

Running == panicked = ""

\* Broker.mu is free: no caller holds it while waiting in PublishSync.
Unlocked == pending = <<>>

\* Close and Restore replace every topic object: a WriteTo call that has looked
\* its topic up and not yet registered holds a topic the broker no longer has.
markStale(fl) ==
    [s \in 1..MaxSinks |-> IF fl[s].pc = "register" THEN [fl[s] EXCEPT !.stale = TRUE] ELSE fl[s]]

\* ---- initial state ----
InitWith(seed, lim) ==
    /\ path = FALSE
    /\ log = FALSE
    /\ index = 0
    /\ replicas = NoReplicaMap
    /\ topics = [t \in TIDs |-> NoTopic]
    /\ robj = [o \in 1..MaxObj |-> FreeObj]
    /\ sinks = [s \in 1..MaxSinks |-> NoSink]
    /\ flows = [s \in 1..MaxSinks |-> NoFlow]
    /\ files = seed.files
    /\ meta = seed.meta
    /\ snap = NoSnap
    /\ logIndex = seed.logIndex
    /\ limit = lim
    /\ leader = FALSE
    /\ panicked = ""
    /\ unsubAt = [r \in RIDs |-> [t \in TIDs |-> 0]]
    /\ pending = <<>>
    /\ applied = <<>>
    /\ last = Op("Init", 0, 0, 0, FALSE, TRUE)

InitFrom(seed, n, m) ==
    InitWith(seed, [index |-> seed.logIndex + n, sinks |-> m, record |-> FALSE])

Init == \E seed \in Seeds : InitFrom(seed, MaxApplies, 0)

\* ---- actions ----
\* Broker.Open with a path and a URL, no I/O fault.
Open ==
    /\ Running /\ ~path /\ Unlocked
    /\ Cardinality(FreeOids(State)) >= Cardinality({r \in RIDs : meta.replicas[r].present})
    /\ path' = TRUE
    /\ log' = TRUE
    /\ \E st \in {load(State)} : Commit(st, flows)
    /\ last' = Op("Open", 0, 0, 0, FALSE, TRUE)
    /\ UNCHANGED <<snap, logIndex, limit, leader, unsubAt, pending, applied>>

\* Broker.Open with an empty path: ErrPathRequired before anything is touched.
OpenPathRequired ==
    /\ Running /\ ~path /\ Unlocked
    /\ last' = [Op("Open", 0, 0, 0, FALSE, FALSE) EXCEPT !.err = "ErrPathRequired"]
    /\ UNCHANGED <<path, log, index, replicas, topics, robj, sinks, flows, files, meta, snap,
                   logIndex, limit, leader, panicked, unsubAt, pending, applied>>

\* Broker.Open with a path and a nil URL: b.path is assigned before the URL is
\* looked at, and the return of ErrConnectionAddressRequired leaves it set.
OpenAddressRequired ==
    /\ Running /\ ~path /\ Unlocked
    /\ path' = TRUE
    /\ last' = [Op("Open", 0, 0, 0, FALSE, FALSE) EXCEPT !.err = "ErrConnectionAddressRequired"]
    /\ UNCHANGED <<log, index, replicas, topics, robj, sinks, flows, files, meta, snap,
                   logIndex, limit, leader, panicked, unsubAt, pending, applied>>

\* Broker.Open when load fails (before it has read anything) or when the raft
\* log fails to open (after load): b.close() undoes the assignment of b.path
\* and drops what was loaded.
OpenFails ==
    /\ Running /\ ~path /\ Unlocked
    /\ Cardinality(FreeOids(State)) >= Cardinality({r \in RIDs : meta.replicas[r].present})
    /\ \E e \in {"load", "raft"} :
        /\ \E st \in {close(IF e = "load" THEN State ELSE load(State))} :
                Commit(st, markStale(flows))
        /\ last' = [Op("Open", 0, 0, 0, FALSE, FALSE) EXCEPT !.err = e]
    /\ UNCHANGED <<path, log, snap, logIndex, limit, leader, unsubAt, pending, applied>>

\* Broker.Close on a broker that is not open: ErrClosed.
CloseClosed ==
    /\ Running /\ ~path /\ Unlocked
    /\ last' = [Op("Close", 0, 0, 0, FALSE, FALSE) EXCEPT !.err = "ErrClosed"]
    /\ UNCHANGED <<path, log, index, replicas, topics, robj, sinks, flows, files, meta, snap,
                   logIndex, limit, leader, panicked, unsubAt, pending, applied>>

\* Broker.Close
Close ==
    /\ Running /\ path /\ Unlocked
    /\ path' = FALSE
    /\ log' = FALSE
    /\ leader' = FALSE
    /\ \E st \in {close(State)} : Commit(st, markStale(flows))
    /\ last' = Op("Close", 0, 0, 0, FALSE, TRUE)
    /\ UNCHANGED <<snap, logIndex, limit, unsubAt, pending, applied>>

\* The raft log hands its next entry to brokerFSM.MustApply.
ApplyEntry(e) ==
    /\ Running /\ path /\ log
    /\ logIndex < limit.index
    /\ e.type = "CreateReplica" => FreeOids(State) # {}
    /\ logIndex' = logIndex + 1
    /\ \E st \in {MustApply(State, e, logIndex + 1)} : Commit(st, flows)
    /\ unsubAt' =
        CASE e.type \in {"CreateReplica", "DeleteReplica"} ->
                [unsubAt EXCEPT ![e.rid] = [t \in TIDs |-> 0]]
          [] e.type = "Subscribe" /\ replicas[e.rid] # 0 ->
                [unsubAt EXCEPT ![e.rid][e.tid] = 0]
          [] e.type = "Unsubscribe" /\ replicas[e.rid] # 0 ->
                [unsubAt EXCEPT ![e.rid][e.tid] = logIndex + 1]
          [] OTHER -> unsubAt
    /\ last' = Op(e.type, e.rid, IF e.type = "Publish" THEN e.topic ELSE e.tid, 0,
                  e.rid # 0 /\ replicas[e.rid] # 0, TRUE)
    /\ applied' = IF limit.record THEN Append(applied, e) ELSE applied
    /\ UNCHANGED <<path, log, snap, limit, leader>>

\* An entry that no caller of this broker waits for.
Apply(e) == ApplyEntry(e) /\ UNCHANGED pending

ApplyInternal == \E e \in Entries : e.type = "Internal" /\ Apply(e)

ApplyPublish == \E e \in Entries : e.type = "Publish" /\ Apply(e)

ApplyCreateReplica == \E e \in Entries : e.type = "CreateReplica" /\ Apply(e)

ApplyDeleteReplica == \E e \in Entries : e.type = "DeleteReplica" /\ Apply(e)

ApplySubscribe == \E e \in Entries : e.type = "Subscribe" /\ Apply(e)

ApplyUnsubscribe == \E e \in Entries : e.type = "Unsubscribe" /\ Apply(e)

\* Broker.CreateReplica, DeleteReplica, Subscribe, Unsubscribe: the existence
\* check under Broker.mu, then PublishSync, which holds the lock until the
\* command is applied.
Call(e) ==
    /\ Running /\ path /\ log /\ Unlocked
    /\ \E err \in {precheck(State, e)} :
        /\ pending' = IF err = "" THEN <<e>> ELSE pending
        /\ last' = [Op("Call" \o e.type, e.rid, e.tid, 0, replicas[e.rid] # 0, err = "")
                        EXCEPT !.err = err]
    /\ UNCHANGED <<path, log, index, replicas, topics, robj, sinks, flows, files, meta, snap,
                   logIndex, limit, leader, panicked, unsubAt, applied>>

CreateReplica == \E e \in Entries : e.type = "CreateReplica" /\ Call(e)

DeleteReplica == \E e \in Entries : e.type = "DeleteReplica" /\ Call(e)

Subscribe == \E e \in Entries : e.type = "Subscribe" /\ Call(e)

Unsubscribe == \E e \in Entries : e.type = "Unsubscribe" /\ Call(e)

\* The raft log hands the published command to brokerFSM.MustApply; the
\* caller's wait in PublishSync ends.
ApplyPublished ==
    /\ pending # <<>>
    /\ ApplyEntry(Head(pending))
    /\ pending' = Tail(pending)

\* The raft log makes this node the leader.
BecomeLeader ==
    /\ Running /\ path /\ log /\ ~leader
    /\ leader' = TRUE
    /\ last' = Op("BecomeLeader", 0, 0, 0, FALSE, TRUE)
    /\ UNCHANGED <<path, log, index, replicas, topics, robj, sinks, flows, files, meta, snap,
                   logIndex, limit, panicked, unsubAt, pending, applied>>

\* The raft log makes this node a follower; the broker is not told.
BecomeFollower ==
    /\ Running /\ path /\ leader
    /\ leader' = FALSE
    /\ last' = Op("BecomeFollower", 0, 0, 0, FALSE, TRUE)
    /\ UNCHANGED <<path, log, index, replicas, topics, robj, sinks, flows, files, meta, snap,
                   logIndex, limit, panicked, unsubAt, pending, applied>>

\* Broker.Heartbeat accepted: the node is leader and the replica exists.
Heartbeat ==
    \E id \in RIDs, i \in HeartbeatIndexes :
        /\ Running /\ Unlocked /\ leader /\ replicas[id] # 0
        /\ \E st \in {[State EXCEPT !.robj[replicas[id]].index = i]} : Commit(st, flows)
        /\ last' = Op("Heartbeat", id, 0, 0, TRUE, TRUE)
        /\ UNCHANGED <<path, log, snap, logIndex, limit, leader, unsubAt, pending, applied>>

\* Broker.Truncate
DoTruncate ==
    /\ Running /\ path /\ Unlocked
    /\ \E st \in {Truncate(State)} : Commit(st, flows)
    /\ last' = Op("Truncate", 0, 0, 0, FALSE, TRUE)
    /\ UNCHANGED <<path, log, snap, logIndex, limit, leader, unsubAt, pending, applied>>

\* brokerFSM.Snapshot: the first snapshot that succeeds is kept for Restore.
Snapshot ==
    /\ Running /\ path /\ log /\ Unlocked /\ ~snap.taken
    /\ \E ord \in Perms({t \in TIDs : topics[t].present}) :
        \E hdr \in {snapshotHeader(State, ord)} :
            /\ snap' = IF snapshotOk(hdr) THEN hdr ELSE snap
            /\ last' = Op("Snapshot", 0, 0, 0, FALSE, snapshotOk(hdr))
    /\ UNCHANGED <<path, log, index, replicas, topics, robj, sinks, flows, files, meta,
                   logIndex, limit, leader, panicked, unsubAt, pending, applied>>

\* brokerFSM.Restore of the snapshot taken earlier.
DoRestore ==
    /\ Running /\ path /\ log /\ Unlocked /\ snap.taken
    /\ Cardinality(FreeOids(State)) >= Cardinality({r \in RIDs : snap.replicas[r].present})
    /\ \E r \in {Restore(State, snap)} :
           /\ Commit(r.st, markStale(flows))
           /\ last' = Op("Restore", 0, 0, 0, FALSE, r.ok)
    /\ UNCHANGED <<path, log, snap, logIndex, limit, leader, unsubAt, pending, applied>>

\* Replica.WriteTo, up to the topic loop: drop the previous writer, install w.
AttachStart ==
    \E rid \in RIDs :
        /\ Running /\ replicas[rid] # 0
        /\ Cardinality({s \in 1..MaxSinks : sinks[s].used}) < limit.sinks
        /\ LET o == replicas[rid]
               s == Min({x \in 1..MaxSinks : ~sinks[x].used})
               s1 == closeWriter(State, o)
               s2 == [s1 EXCEPT !.robj[o].writer = s,
                                !.sinks[s] = [used |-> TRUE, rid |-> rid, out |-> <<>>, done |-> 0,
                                              broken |-> FALSE]]
               ids == SortedSeq(robj[o].topics)
           IN  /\ \E st \in {s2} : Commit(st, [flows EXCEPT ![s] =
                        [pc |-> IF ids = <<>> THEN "wait" ELSE "loop", obj |-> o,
                         ids |-> ids, stale |-> FALSE]])
               /\ last' = Op("AttachStart", rid, 0, s, TRUE, TRUE)
        /\ UNCHANGED <<path, log, snap, logIndex, limit, leader, unsubAt, pending, applied>>

\* Replica.WriteTo, one turn of the loop up to the catch-up: look the topic
\* up, assert it exists, write its stored messages to the replica.
AttachCatchUp ==
    \E s \in 1..MaxSinks :
        /\ Running /\ flows[s].pc = "loop"
        /\ LET o == flows[s].obj
               tid == Head(flows[s].ids)
           IN  IF ~topics[tid].present
               THEN /\ Commit(Panic(State, "topic missing"), flows)
                    /\ last' = Op("AttachCatchUp", robj[o].id, tid, s, TRUE, FALSE)
               ELSE \E w \in {writeTo(State, tid, o)} :
                        IF w.ok
                        THEN /\ Commit(w.st, [flows EXCEPT ![s].pc = "register"])
                             /\ last' = Op("AttachCatchUp", robj[o].id, tid, s, TRUE, TRUE)
                        ELSE /\ Commit(closeWriter(w.st, o),
                                       [flows EXCEPT ![s].pc = "failed"])
                             /\ last' = Op("AttachCatchUp", robj[o].id, tid, s, TRUE, FALSE)
        /\ UNCHANGED <<path, log, snap, logIndex, limit, leader, unsubAt, pending, applied>>

\* Replica.WriteTo, the rest of the turn: t.replicas[r.id] = r.
AttachRegister ==
    \E s \in 1..MaxSinks :
        /\ Running /\ flows[s].pc = "register"
        /\ LET o == flows[s].obj
               tid == Head(flows[s].ids)
               rest == Tail(flows[s].ids)
           IN  /\ Commit(IF flows[s].stale THEN State
                         ELSE [State EXCEPT !.topics[tid].replicas[robj[o].id] = o],
                         [flows EXCEPT ![s] = [pc |-> IF rest = <<>> THEN "wait" ELSE "loop",
                                               obj |-> o, ids |-> rest, stale |-> FALSE]])
               /\ last' = Op("AttachRegister", robj[o].id, tid, s, TRUE, TRUE)
        /\ UNCHANGED <<path, log, snap, logIndex, limit, leader, unsubAt, pending, applied>>

\* The io.Writer of an attached sink starts to return errors (the connection
\* to the replica broke).
SinkFail ==
    \E s \in 1..MaxSinks :
        /\ Running /\ sinks[s].used /\ sinks[s].done = 0 /\ ~sinks[s].broken
        /\ sinks' = [sinks EXCEPT ![s].broken = TRUE]
        /\ last' = Op("SinkFail", sinks[s].rid, 0, s, TRUE, TRUE)
        /\ UNCHANGED <<path, log, index, replicas, topics, robj, flows, files, meta, snap,
                       logIndex, limit, leader, panicked, unsubAt, pending, applied>>

\* The state machine driven by the raft log alone.
Next ==
    \/ Open
    \/ Close
    \/ ApplyInternal
    \/ ApplyPublish
    \/ ApplyCreateReplica
    \/ ApplyDeleteReplica
    \/ ApplySubscribe
    \/ ApplyUnsubscribe
    \/ DoTruncate
    \/ Snapshot
    \/ DoRestore

Spec == Init /\ [][Next]_vars

\* Replica attach interleaved with the log, on the directory of an earlier run.
InitAttach == InitFrom(SegSeed, MaxAttachApplies, MaxAttaches)

NextAttach ==
    \/ Open
    \/ Close
    \/ ApplyInternal
    \/ ApplyPublish
    \/ ApplyCreateReplica
    \/ ApplyDeleteReplica
    \/ ApplySubscribe
    \/ ApplyUnsubscribe
    \/ AttachStart
    \/ AttachCatchUp
    \/ AttachRegister

SpecAttach == InitAttach /\ [][NextAttach]_vars

\* Heartbeats, truncation and catch-up on the directory of an earlier run.
NextSeg ==
    \/ Open
    \/ ApplyCreateReplica
    \/ ApplySubscribe
    \/ BecomeLeader
    \/ Heartbeat
    \/ DoTruncate
    \/ AttachStart
    \/ AttachCatchUp
    \/ AttachRegister

SpecSeg == InitAttach /\ [][NextSeg]_vars

\* Changes of the node's role between heartbeats and truncation.
MaxRoleApplies == 2

InitRole == InitFrom(SegSeed, MaxRoleApplies, 0)

NextRole ==
    \/ Open
    \/ Close
    \/ ApplyPublish
    \/ ApplyCreateReplica
    \/ BecomeLeader
    \/ BecomeFollower
    \/ Heartbeat
    \/ DoTruncate

SpecRole == InitRole /\ [][NextRole]_vars

\* Open and Close with their failures, between applies.
MaxOpenApplies == 2

InitOpen == \E seed \in Seeds : InitFrom(seed, MaxOpenApplies, 0)

NextOpen ==
    \/ Open
    \/ OpenPathRequired
    \/ OpenAddressRequired
    \/ OpenFails
    \/ Close
    \/ CloseClosed
    \/ ApplyPublish
    \/ ApplyCreateReplica
    \/ ApplySubscribe

SpecOpen == InitOpen /\ [][NextOpen]_vars

\* The callers' side: commands enter the log through the existence checks.
MaxCallApplies == 3

InitCall == \E seed \in Seeds :
    InitWith(seed, [index |-> seed.logIndex + MaxCallApplies, sinks |-> 0, record |-> FALSE])

NextCall ==
    \/ Open
    \/ Close
    \/ CreateReplica
    \/ DeleteReplica
    \/ Subscribe
    \/ Unsubscribe
    \/ ApplyPublished
    \/ ApplyInternal

SpecCall == InitCall /\ [][NextCall]_vars

\* Sinks that fail, are replaced and are detached, on the directory of an
\* earlier run.
MaxSinkApplies == 2

InitSink ==
    InitWith(SegSeed, [index |-> SegSeed.logIndex + MaxSinkApplies, sinks |-> MaxSinks,
                       record |-> FALSE])

NextSink ==
    \/ Open
    \/ ApplyInternal
    \/ ApplyPublish
    \/ ApplyCreateReplica
    \/ AttachStart
    \/ AttachCatchUp
    \/ AttachRegister
    \/ SinkFail

SpecSink == InitSink /\ [][NextSink]_vars

\* Every way a sink is detached.
NextDetach ==
    \/ Open
    \/ Close
    \/ ApplyInternal
    \/ ApplyDeleteReplica
    \/ AttachStart
    \/ AttachCatchUp
    \/ AttachRegister
    \/ SinkFail

SpecDetach == InitSink /\ [][NextDetach]_vars

\* A fresh broker whose applied entries are recorded, with a sink and
\* heartbeats.
MaxDetApplies == 3

InitDet ==
    InitWith(EmptySeed, [index |-> MaxDetApplies, sinks |-> MaxAttaches, record |-> TRUE])

NextDet ==
    \/ Open
    \/ ApplyInternal
    \/ ApplyPublish
    \/ ApplyCreateReplica
    \/ ApplyDeleteReplica
    \/ ApplySubscribe
    \/ ApplyUnsubscribe
    \/ AttachStart
    \/ AttachCatchUp
    \/ AttachRegister
    \/ BecomeLeader
    \/ Heartbeat

SpecDet == InitDet /\ [][NextDet]_vars

\* ---- properties ----
ApplyOps == {"Internal", "Publish", "CreateReplica", "DeleteReplica", "Subscribe", "Unsubscribe"}

\* The messages stored for topic t, segment files in the order of their names.
StoredMessages(t) ==
    LET names == SortedSeq(DOMAIN files[t])
    IN  Flatten([i \in 1..Len(names) |-> files[t][names[i]]])

Ascending(s) == \A i \in 1..(Len(s) - 1) : s[i] < s[i + 1]

\* C1: the 'topic message out of order' assertion of encode never fails, also
\* after Close and Open, and the indices stored in every topic are strictly
\* increasing.
C1_AppendInOrder ==
    /\ panicked # "topic message out of order"
    /\ \A t \in TIDs : Ascending(StoredMessages(t))

\* A message appended to a topic whose highIndex was read back by Open.
C1_Witness ==
    /\ last.op = "Publish" /\ last.tid = 1 /\ panicked = ""
    /\ 6 \in DOMAIN files[1] /\ files[1][6] = <<6, 7>>
    /\ topics[1].index = 7

\* C2: after the apply of the entry with index k completes, Broker.index is k
\* and is the maximum highIndex over the topics.
C2_AppliedIndex ==
    (last.op \in ApplyOps /\ panicked = "") =>
        /\ index = logIndex
        /\ index = Max({topics[t].index : t \in TIDs})

C2_Witness ==
    /\ last.op \in ApplyOps /\ panicked = "" /\ index = logIndex
    /\ \E t1, t2 \in TIDs :
        /\ topics[t1].present /\ topics[t2].present
        /\ 0 < topics[t1].index /\ topics[t1].index < topics[t2].index
        /\ topics[t2].index = index

\* C6: after the apply of CreateReplica for an id not present, the replica
\* exists, is subscribed to exactly the broadcast topic, and that topic exists.
C6_CreateReplica ==
    (last.op = "CreateReplica" /\ ~last.existed /\ panicked = "") =>
        /\ replicas[last.rid] # 0
        /\ robj[replicas[last.rid]].topics = {BroadcastTopicID}
        /\ topics[BroadcastTopicID].present

C6_Witness ==
    /\ last.op = "CreateReplica" /\ ~last.existed /\ panicked = ""
    /\ replicas[last.rid] # 0
    /\ robj[replicas[last.rid]].topics = {BroadcastTopicID}
    /\ topics[1].present

\* C7: the apply of CreateReplica for an id that exists leaves the replica's
\* subscribed topics, highReceivedIndex and writer, and every topic's
\* attached-replica map, as they were.
C7_CreateExistingNoOp ==
    [][(last'.op = "CreateReplica" /\ last'.existed /\ logIndex' = logIndex + 1) =>
        /\ replicas'[last'.rid] # 0
        /\ robj'[replicas'[last'.rid]].topics = robj[replicas[last'.rid]].topics
        /\ robj'[replicas'[last'.rid]].index = robj[replicas[last'.rid]].index
        /\ robj'[replicas'[last'.rid]].writer = robj[replicas[last'.rid]].writer
        /\ \A t \in TIDs : topics'[t].replicas = topics[t].replicas]_vars

\* The indices of the messages of topic t written to sink s, in order.
SinkTopic(s, t) ==
    LET es == SelectSeq(sinks[s].out, LAMBDA e : e[1] = t)
    IN  [i \in 1..Len(es) |-> es[i][2]]

\* C3: under every interleaving of applies with an attach, the messages of one
\* topic written to one sink are strictly ascending in index.
C3_SinkAscending ==
    \A s \in 1..MaxSinks : \A t \in TIDs : Ascending(SinkTopic(s, t))

\* The messages of topic t on disk after index h, as sink entries.
After(t, h) ==
    LET ms == SelectSeq(StoredMessages(t), LAMBDA m : m > h)
    IN  [i \in 1..Len(ms) |-> <<t, ms[i]>>]

Subscribed(t) == {r \in RIDs : replicas[r] # 0 /\ t \in robj[replicas[r]].topics}

\* C5: Truncate removes the file of a segment exactly when the segment is not
\* the last one, some replica is subscribed to the topic and the next
\* segment's start index is at most the lowest highReceivedIndex of the
\* subscribed replicas; no removed message is above a subscribed replica's
\* highReceivedIndex, and the other files are left as they were.
C5_Truncate ==
    [][last'.op = "Truncate" =>
        \A t \in TIDs :
            /\ \A i \in 1..Len(topics[t].segments) :
                LET name == topics[t].segments[i].index
                IN  name \in DOMAIN files[t] =>
                      /\ (name \notin DOMAIN files'[t]) <=>
                            (/\ i < Len(topics[t].segments)
                             /\ Subscribed(t) # {}
                             /\ \A r \in Subscribed(t) :
                                  topics[t].segments[i + 1].index <= robj[replicas[r]].index)
                      /\ (name \notin DOMAIN files'[t]) =>
                            \A r \in Subscribed(t) : \A j \in 1..Len(files[t][name]) :
                                files[t][name][j] <= robj[replicas[r]].index
            /\ DOMAIN files'[t] \subseteq DOMAIN files[t]
            /\ \A x \in DOMAIN files'[t] : files'[t][x] = files[t][x]]_vars

\* Two subscribed replicas with highReceivedIndex 5 and 6: the first segment
\* is removed, the second and the last are kept.
C5_Witness ==
    /\ last.op = "Truncate"
    /\ Subscribed(1) = {1, 2}
    /\ {robj[replicas[r]].index : r \in RIDs} = {5, 6}
    /\ DOMAIN files[1] = {5, 6}
    /\ Len(topics[1].segments) = 3

\* C8: after the apply of DeleteReplica for an existing replica, neither the
\* broker's replica map nor any topic's attached-replica map contains the id.
C8_DeleteReplica ==
    (last.op = "DeleteReplica" /\ last.existed /\ panicked = "") =>
        /\ replicas[last.rid] = 0
        /\ \A t \in TIDs : topics[t].replicas[last.rid] = 0

\* C9: every topic a registered replica is subscribed to is in the broker's
\* topic map, and the 'topic missing' assertion of WriteTo never fails.
C9_TopicPresent ==
    /\ \A r \in RIDs : replicas[r] # 0 =>
            \A t \in robj[replicas[r]].topics : topics[t].present
    /\ panicked # "topic missing"

\* C10: after the apply of Unsubscribe{r, t} the relation is removed on both
\* sides, and no message appended to t after it is written to a sink of r
\* until Subscribe{r, t} is applied.
C10_Unsubscribe ==
    /\ (last.op = "Unsubscribe" /\ panicked = "") =>
            /\ replicas[last.rid] # 0 => last.tid \notin robj[replicas[last.rid]].topics
            /\ topics[last.tid].replicas[last.rid] = 0
    /\ \A s \in 1..MaxSinks : \A i \in 1..Len(sinks[s].out) :
            LET t == sinks[s].out[i][1]
                k == sinks[s].out[i][2]
            IN  ~(unsubAt[sinks[s].rid][t] # 0 /\ k > unsubAt[sinks[s].rid][t])

CallOps == {"CallCreateReplica", "CallDeleteReplica", "CallSubscribe", "CallUnsubscribe"}

\* C11: CreateReplica on an existing id returns ErrReplicaExists; DeleteReplica,
\* Subscribe and Unsubscribe on a missing replica return ErrReplicaNotFound; a
\* call that returns the error hands no command to the log and leaves the
\* topics, the replicas and Broker.index as they were.
C11_PrecheckFails ==
    [][last'.op \in CallOps =>
        /\ last'.err = (IF last'.op = "CallCreateReplica"
                        THEN (IF replicas[last'.rid] # 0 THEN "ErrReplicaExists" ELSE "")
                        ELSE (IF replicas[last'.rid] = 0 THEN "ErrReplicaNotFound" ELSE ""))
        /\ last'.err # "" =>
            /\ pending' = <<>> /\ logIndex' = logIndex /\ applied' = applied
            /\ topics' = topics /\ replicas' = replicas /\ robj' = robj
            /\ index' = index /\ files' = files /\ meta' = meta]_vars

\* CreateReplica refused for a replica that exists and has a second topic.
C11_Witness ==
    /\ last.op = "CallCreateReplica" /\ last.err = "ErrReplicaExists"
    /\ replicas[last.rid] # 0 /\ robj[replicas[last.rid]].topics = {0, 1}
    /\ pending = <<>>

\* C12: a successful Heartbeat for a replica never lowers its
\* highReceivedIndex: ReplicaIndex stays the highest index acknowledged.
C12_HeartbeatMax ==
    [][(last'.op = "Heartbeat" /\ replicas[last'.rid] # 0
            /\ replicas'[last'.rid] = replicas[last'.rid]) =>
        robj'[replicas'[last'.rid]].index >= ReplicaIndex(State, last'.rid)]_vars

\* The messages in the segment files fs, in the order of the file names.
Stored(fs) ==
    LET names == SortedSeq(DOMAIN fs)
    IN  Flatten([i \in 1..Len(names) |-> fs[names[i]]])

\* The state with every sink accepting writes.
Healthy(st) ==
    [st EXCEPT !.sinks = [s \in 1..MaxSinks |-> [st.sinks[s] EXCEPT !.broken = FALSE]]]

\* The log entry whose apply the history variable last records.
EntryOf(l) ==
    [type |-> l.op, rid |-> l.rid,
     tid |-> IF l.op = "Publish" THEN 0 ELSE l.tid,
     topic |-> IF l.op = "Publish" THEN l.tid ELSE BroadcastTopicID]

\* C13: an apply stores its message, moves the topic's index and Broker.index
\* and fails or succeeds exactly as it would with every sink accepting writes;
\* every replica attached to the topic whose sink is still installed received
\* the message, and a replica whose sink's Write failed has no sink left and
\* its done channel closed.
C13_WriteFailure ==
    [][(last'.op \in ApplyOps /\ logIndex' = logIndex + 1) =>
        LET e == EntryOf(last')
            k == logIndex'
            t == e.topic
            ref == MustApply(Healthy(State), e, k)
        IN  /\ panicked' = ref.panicked
            /\ files' = ref.files
            /\ index' = ref.index
            /\ \A x \in TIDs : topics'[x].index = ref.topics[x].index
            /\ panicked' = "" =>
                /\ Stored(files'[t]) = Append(Stored(files[t]), k)
                /\ topics'[t].index = k
                /\ index' = k
                /\ \A r \in RIDs :
                    LET o == topics'[t].replicas[r]
                    IN  o # 0 =>
                        /\ robj'[o].writer # 0 =>
                            /\ Len(sinks'[robj'[o].writer].out) > 0
                            /\ sinks'[robj'[o].writer].out[Len(sinks'[robj'[o].writer].out)]
                                    = <<t, k>>
                        /\ (robj[o].writer # 0 /\ sinks[robj[o].writer].broken) =>
                            /\ robj'[o].writer = 0
                            /\ sinks'[robj[o].writer].done = 1]_vars

\* An internal entry appended to the broadcast topic with two replicas
\* attached: the first one's sink fails and is detached, the second one's
\* sink receives the message.
C13_Witness ==
    /\ last.op = "Internal" /\ panicked = "" /\ index = logIndex
    /\ sinks[1].broken /\ sinks[1].done = 1 /\ sinks[1].rid = 1
    /\ topics[0].replicas[1] # 0 /\ robj[topics[0].replicas[1]].writer = 0
    /\ ~sinks[2].broken /\ sinks[2].done = 0 /\ sinks[2].rid = 2
    /\ Len(sinks[2].out) > 0 /\ sinks[2].out[Len(sinks[2].out)] = <<0, logIndex>>
    /\ Len(sinks[1].out) > 0 /\ sinks[1].out[Len(sinks[1].out)] # <<0, logIndex>>

\* C14: the done channel of a sink is closed at most once, and exactly once
\* when the sink is no longer installed on a replica; closeWriter on a replica
\* without a writer changes nothing, and a second closeWriter changes nothing.
C14_DetachOnce ==
    /\ \A s \in 1..MaxSinks :
        /\ sinks[s].done <= 1
        /\ sinks[s].used =>
            (sinks[s].done = 1 <=> ~(\E o \in 1..MaxObj : robj[o].writer = s))
    /\ \A o \in 1..MaxObj :
        LET c == closeWriter(State, o)
        IN  /\ closeWriter(c, o) = c
            /\ robj[o].writer = 0 => c = State

\* A sink detached by a failed write, its replica then deleted and the
\* broker closed: three detaches, one signal.
C14_Witness ==
    /\ last.op = "Close"
    /\ sinks[1].used /\ sinks[1].broken /\ sinks[1].done = 1
    /\ ~meta.replicas[1].present
    /\ logIndex = SegSeed.logIndex + 2

\* The WriteTo call with sink s is over.
Returned(fl, s) == fl[s].pc \in {"returned", "failed"}

\* C15: a WriteTo call returns only when its own sink is no longer installed
\* and its done channel is closed; WriteTo on a replica that has a writer
\* closes that writer's done channel (the call waiting on it returns) and
\* installs the new sink on that replica alone; nothing is written to a sink
\* after its done channel is closed.
C15_Attach ==
    [][/\ \A s \in 1..MaxSinks :
            /\ (Returned(flows', s) /\ ~Returned(flows, s)) =>
                /\ sinks'[s].done = 1
                /\ \A o \in 1..MaxObj : robj'[o].writer # s
            /\ sinks[s].done > 0 => sinks'[s].out = sinks[s].out
       /\ (last'.op = "AttachStart" /\ flows[last'.sink].pc = "idle"
                /\ flows'[last'.sink].pc # "idle") =>
            LET o == replicas[last'.rid]
                w1 == robj[o].writer
            IN  /\ \A o2 \in 1..MaxObj : robj'[o2].writer = last'.sink <=> o2 = o
                /\ w1 # 0 =>
                    /\ sinks'[w1].done = 1
                    /\ flows[w1].pc = "wait" => flows'[w1].pc = "returned"]_vars

\* Replica 1 attached twice: the first call has returned, and the message
\* applied last went to the second sink only.
C15_Witness ==
    /\ last.op \in {"Internal", "Publish"} /\ panicked = ""
    /\ sinks[1].rid = 1 /\ sinks[1].done = 1 /\ flows[1].pc = "returned"
    /\ sinks[2].rid = 1 /\ sinks[2].done = 0 /\ ~sinks[2].broken
    /\ replicas[1] # 0 /\ robj[replicas[1]].writer = 2
    /\ <<last.tid, logIndex>> \in {sinks[2].out[i] : i \in 1..Len(sinks[2].out)}
    /\ <<last.tid, logIndex>> \notin {sinks[1].out[i] : i \in 1..Len(sinks[1].out)}
    /\ Len(sinks[1].out) > 0

\* C16: when the catch-up of the broadcast topic in WriteTo writes its
\* messages to the sink, no message of another topic has been written to that
\* sink yet.
C16_BroadcastFirst ==
    [][(last'.op = "AttachCatchUp" /\ last'.tid = BroadcastTopicID
            /\ flows[last'.sink].pc = "loop"
            /\ robj[flows[last'.sink].obj].writer # 0
            /\ sinks'[robj[flows[last'.sink].obj].writer].out
                    # sinks[robj[flows[last'.sink].obj].writer].out) =>
        \A i \in 1..Len(sinks[robj[flows[last'.sink].obj].writer].out) :
            sinks[robj[flows[last'.sink].obj].writer].out[i][1] = BroadcastTopicID]_vars

\* A broker just opened on an empty directory.
EmptyBroker ==
    [index |-> 0, replicas |-> NoReplicaMap, topics |-> [t \in TIDs |-> NoTopic],
     robj |-> [o \in 1..MaxObj |-> FreeObj], sinks |-> [s \in 1..MaxSinks |-> NoSink],
     files |-> EmptySeed.files, meta |-> NoMeta, panicked |-> ""]

\* C17: Restore of a snapshot that holds topics into a broker opened on an
\* empty directory succeeds and leaves the snapshot's topics, each with the
\* snapshot's segments and messages, and the snapshot's replicas with their
\* subscribed topics.
C17_RoundTrip ==
    (snap.taken /\ Len(snap.topics) > 0) =>
        LET r == Restore(EmptyBroker, snap)
        IN  /\ r.ok
            /\ {t \in TIDs : r.st.topics[t].present}
                    = {snap.topics[n].id : n \in 1..Len(snap.topics)}
            /\ \A n \in 1..Len(snap.topics) :
                LET t == snap.topics[n].id
                    segs == snap.topics[n].segments
                IN  /\ DOMAIN r.st.files[t] = {segs[i].index : i \in 1..Len(segs)}
                    /\ \A i \in 1..Len(segs) : r.st.files[t][segs[i].index] = segs[i].data
            /\ \A id \in RIDs :
                /\ (r.st.replicas[id] # 0) = snap.replicas[id].present
                /\ r.st.replicas[id] # 0 =>
                        r.st.robj[r.st.replicas[id]].topics = snap.replicas[id].topics

RECURSIVE Replay(_, _, _)
Replay(st, es, k) ==
    IF es = <<>> THEN st ELSE Replay(MustApply(st, Head(es), k), Tail(es), k + 1)

\* What C19 compares: topic ids, messages per topic, replica ids, subscriptions.
Outcome(st) ==
    [topics |-> {t \in TIDs : st.topics[t].present},
     messages |-> [t \in TIDs |-> Stored(st.files[t])],
     replicas |-> {r \in RIDs : st.replicas[r] # 0},
     subscribed |-> [r \in RIDs |->
        IF st.replicas[r] = 0 THEN {} ELSE st.robj[st.replicas[r]].topics],
     index |-> st.index,
     panicked |-> st.panicked]

\* C19: a broker that applied a sequence of entries, whatever sinks were
\* attached and whatever heartbeats arrived in between, has the topics, the
\* messages per topic, the replicas and the subscriptions of a fresh broker
\* that applied the same entries with no sink and no heartbeat.
C19_Deterministic ==
    path => Outcome(State) = Outcome(Replay(EmptyBroker, applied, 1))

\* Replica 1 created, a sink attached and registered, a heartbeat received,
\* then the replica subscribed to a topic that holds a message.
C19_Witness ==
    /\ Len(applied) = 3 /\ last.op = "Subscribe" /\ last.tid = 1 /\ panicked = ""
    /\ replicas[1] # 0 /\ robj[replicas[1]].topics = {0, 1}
    /\ robj[replicas[1]].writer = 1 /\ robj[replicas[1]].index > 0
    /\ topics[0].replicas[1] = replicas[1]
    /\ Len(sinks[1].out) >= 2

\* The index of the last message in the last segment file of fs, 0 if none.
LastStored(fs) ==
    IF DOMAIN fs = {} THEN 0
    ELSE LET f == fs[Max(DOMAIN fs)]
         IN  IF Len(f) = 0 THEN 0 ELSE f[Len(f)]

\* The broker st was before Close against the broker re that load builds
\* from the directory Close left.
Recovered(st, re) ==
    /\ {t \in TIDs : re.topics[t].present} = {t \in TIDs : st.topics[t].present}
    /\ \A r \in RIDs :
        /\ (re.replicas[r] # 0) = (st.replicas[r] # 0)
        /\ re.replicas[r] # 0 =>
                re.robj[re.replicas[r]].topics = st.robj[st.replicas[r]].topics
    /\ \A t \in TIDs : re.topics[t].present =>
            re.topics[t].index = LastStored(re.files[t])
    /\ re.index = Max({re.topics[t].index : t \in TIDs})
    /\ re.index = st.index

\* C20: when a broker that has applied entries is closed, what Open loads
\* from its directory, into the same Broker or into a new one, has the topics,
\* the replicas and the subscriptions it had before Close, each topic's index
\* is the index of the last message of its last segment, and Broker.index is
\* the maximum of these and the value before Close.
C20_Recovery ==
    [][(last'.op = "Close" /\ path /\ ~path' /\ ~snap.taken) =>
        LET closed == [index |-> index', replicas |-> replicas', topics |-> topics',
                       robj |-> robj', sinks |-> sinks', files |-> files',
                       meta |-> meta', panicked |-> panicked']
        IN  /\ Recovered(State, load(closed))
            /\ Recovered(State, load([closed EXCEPT !.index = 0]))]_vars

\* A broker closed after it created replica 2 and subscribed it to topic 1.
C20_Witness ==
    /\ last.op = "Close" /\ ~path /\ ~snap.taken
    /\ meta.replicas[2].present /\ meta.replicas[2].topics = {0, 1}
    /\ index = 3 /\ LastStored(files[1]) = 3 /\ LastStored(files[0]) = 2

\* An append aborts with a nil segment only on a topic that is not open,
\* never because the last segment is over MaxSegmentSize.
RolloverCompletes ==
    panicked = "nil segment" =>
        \E t \in TIDs : topics[t].present /\ Len(topics[t].segments) = 0

\* C21: the size kept for a topic's last segment is the size of its file; an
\* append that finds the last segment over MaxSegmentSize starts a new segment
\* and does not abort; every segment file starts with the message its segment
\* is named after.
C21_Rollover ==
    /\ \A t \in TIDs : (topics[t].present /\ Len(topics[t].segments) > 0) =>
        LET s == topics[t].segments[Len(topics[t].segments)]
        IN  s.index \in DOMAIN files[t] =>
                s.size = Len(files[t][s.index]) * messageHeaderSize
    /\ RolloverCompletes
    /\ \A t \in TIDs : topics[t].present =>
            \A i \in 1..Len(topics[t].segments) :
                LET s == topics[t].segments[i]
                IN  (s.index \in DOMAIN files[t] /\ Len(files[t][s.index]) > 0) =>
                        files[t][s.index][1] = s.index

\* C22: a change of the node's role leaves every registered replica with
\* highest received index 0, and only an accepted heartbeat changes the index
\* of a replica that stays registered.
C22_RoleChangeResets ==
    [][/\ (leader' # leader) =>
            \A r \in RIDs : replicas'[r] # 0 => robj'[replicas'[r]].index = 0
       /\ \A r \in RIDs :
            (replicas[r] # 0 /\ replicas'[r] = replicas[r]
                /\ robj'[replicas[r]].index # robj[replicas[r]].index)
            => last'.op = "Heartbeat"]_vars

\* C23: a Truncate call on a node that is not the leader removes no segment
\* file.
C23_FollowerKeepsFiles ==
    [][(last'.op = "Truncate" /\ ~leader) => files' = files]_vars

\* The segments of every topic ascend strictly by index and only the last
\* one holds a write handle.
SegmentsWellFormed ==
    \A t \in TIDs : topics[t].present =>
        LET segs == topics[t].segments
        IN  /\ \A i \in 1..Len(segs) - 1 : segs[i].index < segs[i + 1].index
            /\ \A i \in 1..Len(segs) - 1 : ~segs[i].file

\* C24: after every step the segments of each topic ascend strictly and only
\* the last one holds a write handle; a topic has at least one segment from
\* the step that opens it (a Restore that fails leaves its topic unopened).
C24_SegmentList ==
    [][/\ SegmentsWellFormed'
       /\ \A t \in TIDs : topics'[t].present =>
            \/ Len(topics'[t].segments) >= 1
            \/ last'.op = "Restore"
            \/ (topics[t].present /\ Len(topics[t].segments) = 0)]_vars

\* Truncate has removed a segment file of a topic whose last segment is open
\* for writing.
C24_Witness ==
    /\ last.op = "Truncate"
    /\ \E t \in TIDs :
        /\ topics[t].present /\ Len(topics[t].segments) >= 2
        /\ topics[t].segments[Len(topics[t].segments)].file
        /\ \E i \in 1..Len(topics[t].segments) - 1 :
                topics[t].segments[i].index \notin DOMAIN files[t]

\* C25: once an attach has gone through all its topics, and while its sink
\* stays attached to the replica registered under its id, the sink holds
\* every stored message of every subscribed topic above the replica's highest
\* received index, those appended while the attach ran included.
C25_TailCoversGap ==
    \A s \in 1..MaxSinks :
        LET o == flows[s].obj
        IN  (/\ sinks[s].used /\ sinks[s].done = 0 /\ flows[s].pc = "wait"
             /\ robj[o].writer = s /\ replicas[robj[o].id] = o)
            => \A t \in robj[o].topics : topics[t].present =>
                    \A i \in DOMAIN StoredMessages(t) :
                        StoredMessages(t)[i] > robj[o].index =>
                            \E j \in DOMAIN SinkTopic(s, t) :
                                SinkTopic(s, t)[j] = StoredMessages(t)[i]

\* C26: after Truncate no topic lists a segment whose file that call removed.
C26_TruncatedUnlisted ==
    [][last'.op = "Truncate" =>
        \A t \in TIDs : \A x \in (DOMAIN files[t]) \ (DOMAIN files'[t]) :
            \A i \in 1..Len(topics'[t].segments) : topics'[t].segments[i].index # x]_vars

\* C28: every Snapshot call completes without an error.
C28_SnapshotCompletes ==
    [][last'.op = "Snapshot" => last'.ok]_vars

\* C27: every entry of a topic's attached-replica map is the replica object
\* registered in the broker under that id, and that replica is subscribed to
\* the topic.
C27_AttachedCurrent ==
    \A t \in TIDs : topics[t].present =>
        \A id \in RIDs : topics[t].replicas[id] # 0 =>
            /\ topics[t].replicas[id] = replicas[id]
            /\ t \in robj[replicas[id]].topics

\* C29: an Open call that returns an error leaves the broker closed (the path
\* empty, and a Close that follows returns ErrClosed); a Close call on a
\* closed broker returns ErrClosed and changes nothing.
C29_FailedOpenClosed ==
    [][/\ (last'.op = "Open" /\ ~last'.ok) => ~path'
       /\ (last.op = "Open" /\ ~last.ok /\ last'.op = "Close") => last'.err = "ErrClosed"
       /\ (last'.op = "Close" /\ ~path) =>
            /\ last'.err = "ErrClosed"
            /\ <<path, log, index, replicas, topics, robj, files, meta, leader>>' =
               <<path, log, index, replicas, topics, robj, files, meta, leader>>]_vars

====
